---- MODULE Spec2Model ----
(***************************************************************************)
(* Model of the request handlers of LLM_server.py (and of the two handlers *)
(* classification_server.py shares with it): /classify, /classify-pdf and  *)
(* /generate-text.  Python strings are TLA+ strings; outside this module   *)
(* are the model runtime (Llama), PyPDF2 and the prompt file, whose        *)
(* outcomes are nondeterministic choices.                                  *)
(***************************************************************************)
EXTENDS Integers, Sequences, FiniteSets, TLC

(***************************************************************************)
(* Bounds of the model.                                                    *)
(***************************************************************************)
\* request slots: how many requests can be in flight / alternate
NumSlots == 2
\* Llama instances created in one behaviour
MaxInstances == 2
\* completions of up to this length are enumerated exhaustively
MaxShort == 3

Slots == 1..NumSlots

(***************************************************************************)
(* Python str operations, character by character.                          *)
(***************************************************************************)
\* s[i] for a 1-based i, "" outside the string (like the slice s[i:i+1])
CharAt(s, i) == IF i >= 1 /\ i <= Len(s) THEN SubSeq(s, i, i) ELSE ""

\* stand-in for the character '\x00', which a TLA+ string cannot hold
NUL == "~"

\* the whitespace characters that occur in the model's texts
Whitespace == {" ", "\n", "\t", "\r"}

\* the control characters json refuses inside a string (strict mode)
ControlChars == {"\n", "\t", "\r", NUL}

RECURSIVE LStrip(_)
\* str.lstrip()
LStrip(s) ==
  IF s # "" /\ Head(s) \in Whitespace THEN LStrip(Tail(s)) ELSE s

RECURSIVE RStrip(_)
\* str.rstrip()
RStrip(s) ==
  IF s # "" /\ CharAt(s, Len(s)) \in Whitespace
  THEN RStrip(SubSeq(s, 1, Len(s) - 1))
  ELSE s

\* str.strip()
Strip(s) == RStrip(LStrip(s))

\* the 1-based positions of character c in s
Positions(s, c) == {i \in 1..Len(s) : CharAt(s, i) = c}

\* the minimum / maximum of a non-empty set of integers
Min(S) == CHOOSE x \in S : \A y \in S : x <= y
Max(S) == CHOOSE x \in S : \A y \in S : x >= y

\* mutant of Find: the index of the last occurrence
Find_last(s, c) == IF Positions(s, c) = {} THEN -1 ELSE Max(Positions(s, c)) - 1

\* str.find(c): the 0-based index of the first c, -1 when there is none
Find(s, c) == IF Positions(s, c) = {} THEN -1 ELSE Min(Positions(s, c)) - 1

\* mutant of RFind: the first c instead of the last
RFind_first(s, c) == IF Positions(s, c) = {} THEN -1 ELSE Min(Positions(s, c)) - 1

\* str.rfind(c): the 0-based index of the last c, -1 when there is none
RFind(s, c) == IF Positions(s, c) = {} THEN -1 ELSE Max(Positions(s, c)) - 1

\* the slice s[a:b] for 0 <= a <= b
Slice(s, a, b) == SubSeq(s, a + 1, IF b > Len(s) THEN Len(s) ELSE b)

\* str.startswith(p)
StartsWith(s, p) == Len(s) >= Len(p) /\ SubSeq(s, 1, Len(p)) = p

\* str.endswith(p)
EndsWith(s, p) ==
  Len(s) >= Len(p) /\ SubSeq(s, Len(s) - Len(p) + 1, Len(s)) = p

\* the lower-case form of one character (the upper-case letters of the model)
LowerChar(c) ==
  CASE c = "A" -> "a"
    [] c = "D" -> "d"
    [] c = "F" -> "f"
    [] c = "P" -> "p"
    [] OTHER -> c

RECURSIVE Lower(_)
\* str.lower()
Lower(s) == IF s = "" THEN "" ELSE LowerChar(Head(s)) \o Lower(Tail(s))

RECURSIVE Remove(_, _)
\* str.replace(c, '') for a single character c
Remove(s, c) ==
  IF s = "" THEN ""
  ELSE IF Head(s) = c THEN Remove(Tail(s), c)
       ELSE Head(s) \o Remove(Tail(s), c)

RECURSIVE JoinSplit(_, _)
\* ' '.join(s.split()): acc is the text built so far; a word starts after
\* whitespace and is joined to the words before it by one space
JoinSplit(s, acc) ==
  LET t == LStrip(s)
  IN IF t = "" THEN acc
     ELSE LET ws == {i \in 1..Len(t) : CharAt(t, i) \in Whitespace}
              e == IF ws = {} THEN Len(t) ELSE Min(ws) - 1
              word == SubSeq(t, 1, e)
          IN JoinSplit(SubSeq(t, e + 1, Len(t)),
                       IF acc = "" THEN word ELSE acc \o " " \o word)

(***************************************************************************)
(* JSON values, as json.loads builds them and as FastAPI serialises them.  *)
(* A value is a record [t, s, n, o]: t is its type, s its text (str),      *)
(* n its number (int, bool as 0/1), o its key -> value mapping (dict).     *)
(***************************************************************************)
EmptyObj == [k \in {} |-> 0]

Str(x) == [t |-> "str", s |-> x, n |-> 0, o |-> EmptyObj]
Num(x) == [t |-> "num", s |-> "", n |-> x, o |-> EmptyObj]
Bool(x) == [t |-> "bool", s |-> "", n |-> IF x THEN 1 ELSE 0, o |-> EmptyObj]
Obj(f) == [t |-> "obj", s |-> "", n |-> 0, o |-> f]
None == [t |-> "none", s |-> "", n |-> 0, o |-> EmptyObj]

\* d[k] = v on a dict d: a key already present is overwritten
Put(d, k, v) == [x \in (DOMAIN d) \cup {k} |-> IF x = k THEN v ELSE d[x]]

(***************************************************************************)
(* json.loads on the fragment of JSON the model's completions can spell:   *)
(* objects and strings without escapes.  Every other character where a     *)
(* value is expected is a JSONDecodeError, as in Python (no completion of  *)
(* the model spells a number, a literal or an array).  A result is         *)
(* [ok, pos, val]: pos is the 1-based position after the parsed text.      *)
(***************************************************************************)
Failure == [ok |-> FALSE, pos |-> 0, val |-> None]

RECURSIVE SkipWs(_, _)
\* the position of the first non-whitespace character at or after i
SkipWs(s, i) == IF CharAt(s, i) \in Whitespace THEN SkipWs(s, i + 1) ELSE i

\* the string whose opening quote is at i - 1: up to the next quote;
\* unterminated, or holding a control character, is an error
ScanString(s, i) ==
  LET q == {j \in i..Len(s) : CharAt(s, j) = "\""}
  IN IF q = {} THEN Failure
     ELSE LET e == Min(q)
              body == SubSeq(s, i, e - 1)
          IN IF \E j \in 1..Len(body) : CharAt(body, j) \in ControlChars
             THEN Failure
             ELSE [ok |-> TRUE, pos |-> e + 1, val |-> Str(body)]

RECURSIVE ParseValue(_, _)
RECURSIVE ParseMembers(_, _, _)

\* the object whose opening brace is at i - 1
ParseObject(s, i) ==
  LET j == SkipWs(s, i)
  IN IF CharAt(s, j) = "}" THEN [ok |-> TRUE, pos |-> j + 1, val |-> Obj(EmptyObj)]
     ELSE IF CharAt(s, j) = "\"" THEN ParseMembers(s, j, EmptyObj)
     ELSE Failure

\* the members of an object from the key whose opening quote is at j;
\* acc holds the members before it (a repeated key keeps its last value)
ParseMembers(s, j, acc) ==
  LET key == ScanString(s, j + 1)
      c == SkipWs(s, key.pos)
      v == ParseValue(s, SkipWs(s, c + 1))
      d == SkipWs(s, v.pos)
      acc2 == Put(acc, key.val.s, v.val)
      e == SkipWs(s, d + 1)
  IN IF ~key.ok \/ CharAt(s, c) # ":" THEN Failure
     ELSE IF ~v.ok THEN Failure
     ELSE IF CharAt(s, d) = "}" THEN [ok |-> TRUE, pos |-> d + 1, val |-> Obj(acc2)]
     ELSE IF CharAt(s, d) = "," /\ CharAt(s, e) = "\"" THEN ParseMembers(s, e, acc2)
     ELSE Failure

\* the value that starts at i
ParseValue(s, i) ==
  IF CharAt(s, i) = "\"" THEN ScanString(s, i + 1)
  ELSE IF CharAt(s, i) = "{" THEN ParseObject(s, i + 1)
  ELSE Failure

\* json.loads(s): one value, with whitespace around it and nothing else
JsonLoads(s) ==
  LET v == ParseValue(s, SkipWs(s, 1))
  IN IF v.ok /\ SkipWs(s, v.pos) = Len(s) + 1 THEN v ELSE Failure

(***************************************************************************)
(* PDF text extraction.  A PDF is what PyPDF2 makes of the bytes: it is    *)
(* readable or PdfReader raises (err is the exception's message), and each *)
(* page's extract_text() returns a text or raises; size is len(bytes).     *)
(***************************************************************************)
NoTextMessage ==
  "No text content could be extracted from this PDF file. The document may contain only images or be password protected."

Page(text) == [raises |-> FALSE, text |-> text]
BadPage == [raises |-> TRUE, text |-> ""]

RECURSIVE PagesText(_, _, _)
\* the loop over pdf_reader.pages from page i on: the text of every page
\* that is not blank, and a newline after it unless it is the last page;
\* a page that raises is skipped
PagesText(pages, i, acc) ==
  IF i > Len(pages) THEN acc
  ELSE IF pages[i].raises \/ Strip(pages[i].text) = ""
       THEN PagesText(pages, i + 1, acc)
       ELSE PagesText(pages, i + 1,
                      acc \o pages[i].text \o (IF i < Len(pages) THEN "\n" ELSE ""))

extract_text_from_pdf(pdf) ==
  IF ~pdf.readable THEN "Failed to extract text from PDF: " \o pdf.err
  ELSE LET extracted_text == PagesText(pdf.pages, 1, "")
       IN IF Strip(extracted_text) = "" THEN NoTextMessage
          ELSE Strip(JoinSplit(Remove(extracted_text, NUL), ""))

(***************************************************************************)
(* Prompts.                                                                *)
(***************************************************************************)
\* the text of security_analysis_prompt.txt, stripped (a configuration asset)
PromptFileText == "<security_analysis_prompt.txt>"
\* the rubric LLM_server.py falls back to when the file is missing (abridged)
FallbackRubric ==
  "You are an expert security analyst for the Indian Government. [...]\nAnalyze the uploaded document now:\n"
\* the prompt LLM_server.py falls back to on any other error
MinimalPrompt ==
  "Analyze this document and provide security classification in JSON format. Analyze the uploaded document now:"
\* the rubric embedded in classification_server.py (abridged)
EmbeddedRubric ==
  "\nYou are an expert security analyst for the Indian Government. [...]\nAnalyze the uploaded document now:\n"

\* what opening the prompt file can come to
FileOutcomes == {"loaded", "not_found", "error"}

load_security_analysis_prompt(outcome) ==
  CASE outcome = "loaded" -> PromptFileText
    [] outcome = "not_found" -> FallbackRubric
    [] OTHER -> MinimalPrompt

create_security_analysis_prompt(server, outcome, document_content) ==
  IF server = "LLM_server"
  THEN load_security_analysis_prompt(outcome) \o "\n" \o document_content
  ELSE EmbeddedRubric \o document_content

ClassifySystemMessage ==
  "You are a security classification assistant. First, think step-by-step about the user's request. Then, provide your final answer in the requested JSON format."
WritingSystemMessage ==
  "You are a helpful writing assistant. Generate clear, coherent, and useful text based on the user's request. Keep responses concise but informative."

\* the ChatML text of a system turn, a user turn and an opened assistant turn
ChatML(system_message, user_prompt, primer) ==
  "<|im_start|>system\n" \o system_message \o "<|im_end|>\n"
  \o "<|im_start|>user\n" \o user_prompt \o "<|im_end|>\n"
  \o "<|im_start|>assistant\n" \o primer

ClassifyPrompt(server, outcome, document_content) ==
  ChatML(ClassifySystemMessage,
         create_security_analysis_prompt(server, outcome, document_content),
         "<|thinking|>")

\* mutant of WritingUserPrompt: the context line is written also for an
\* empty context
WritingUserPrompt_alwaysContext(prompt, context) ==
  "Write about: " \o prompt
  \o "\n\nContext: " \o context
  \o "\n\nPlease provide a well-written response that addresses the request:"

WritingUserPrompt(prompt, context) ==
  "Write about: " \o prompt
  \o (IF context # "" THEN "\n\nContext: " \o context ELSE "")
  \o "\n\nPlease provide a well-written response that addresses the request:"

WritingPrompt(prompt, context) ==
  ChatML(WritingSystemMessage, WritingUserPrompt(prompt, context), "")

(***************************************************************************)
(* Extraction of the JSON object from a completion, and the bodies of the  *)
(* responses.                                                              *)
(***************************************************************************)
\* mutant of ExtractJson: the test end_index > start_index is left out
ExtractJson_noOrder(response_text) ==
  LET start_index == Find(response_text, "{")
      end_index == RFind(response_text, "}")
  IN IF start_index # -1 /\ end_index # -1
     THEN LET json_match == Slice(response_text, start_index, end_index + 1)
          IN [found |-> TRUE, json_match |-> json_match, parsed |-> JsonLoads(json_match)]
     ELSE [found |-> FALSE, json_match |-> "", parsed |-> Failure]

\* step 4 of the classification handlers on the stripped completion:
\* found says whether a candidate was cut out, tried whether json.loads ran,
\* parsed is its result
ExtractJson(response_text) ==
  LET start_index == Find(response_text, "{")
      end_index == RFind(response_text, "}")
  IN IF start_index # -1 /\ end_index # -1 /\ end_index > start_index
     THEN LET json_match == Slice(response_text, start_index, end_index + 1)
          IN [found |-> TRUE, json_match |-> json_match, parsed |-> JsonLoads(json_match)]
     ELSE [found |-> FALSE, json_match |-> "", parsed |-> Failure]

NoResponseText == "No response generated."
ClassifyFailedReasoning ==
  "Classification failed. Could not parse a valid JSON response from the model after processing. Check server logs for details."
PdfFailedReasoning ==
  "PDF classification failed. Could not parse a valid JSON response from the model after processing. Check server logs for details."

\* mutant of FallbackDetail: the completion is not reported
FallbackDetail_noRaw(reasoning, has_response_text, response_text) ==
  Obj(("classification" :> Str("ANALYSIS_FAILED"))
      @@ ("reasoning" :> Str(reasoning))
      @@ ("raw_response" :> Str(NoResponseText)))

\* the detail of the 503 raised after the try statement
FallbackDetail(reasoning, has_response_text, response_text) ==
  Obj(("classification" :> Str("ANALYSIS_FAILED"))
      @@ ("reasoning" :> Str(reasoning))
      @@ ("raw_response" :>
            Str(IF has_response_text THEN response_text ELSE NoResponseText)))

\* analysis['pdf_metadata'] = {...}
PdfMetadata(filename, pdf_size, extracted_text) ==
  Obj(("filename" :> Str(filename))
      @@ ("file_size_bytes" :> Num(pdf_size))
      @@ ("extracted_text_length" :> Num(Len(extracted_text)))
      @@ ("extraction_successful" :> Bool(TRUE)))

\* mutant of AddPdfMetadata: a pdf_metadata of the model is kept
AddPdfMetadata_setdefault(analysis, filename, pdf_size, extracted_text) ==
  IF "pdf_metadata" \in DOMAIN analysis.o THEN analysis
  ELSE Obj(Put(analysis.o, "pdf_metadata", PdfMetadata(filename, pdf_size, extracted_text)))

AddPdfMetadata(analysis, filename, pdf_size, extracted_text) ==
  Obj(Put(analysis.o, "pdf_metadata", PdfMetadata(filename, pdf_size, extracted_text)))

ModelNotLoaded == Str("Model not loaded. Check server logs for errors.")
OnlyPdf == Str("Only PDF files are supported")
CouldNotExtract ==
  Str("Could not extract text from PDF file. The file may be corrupted, password protected, or contain only images.")

\* the canned text of /generate-text
CannedText(prompt) ==
  "I'd be happy to help you write about " \o prompt
  \o ". Here's a starting point that you can expand upon and customize to fit your specific needs."

\* mutant of GeneratedBody: the success body also carries an error field
GeneratedBody_withError(response_text, prompt) ==
  Obj(("generatedText" :> Str(response_text))
      @@ ("prompt" :> Str(prompt))
      @@ ("success" :> Bool(TRUE))
      @@ ("error" :> Str("")))

GeneratedBody(response_text, prompt) ==
  Obj(("generatedText" :> Str(response_text))
      @@ ("prompt" :> Str(prompt))
      @@ ("success" :> Bool(TRUE)))

\* mutant of GenerationFailedBody: the except clause reports no success flag
GenerationFailedBody_noFlag(prompt, error) ==
  Obj(("generatedText" :> Str(CannedText(prompt)))
      @@ ("prompt" :> Str(prompt))
      @@ ("error" :> Str(error)))

GenerationFailedBody(prompt, error) ==
  Obj(("generatedText" :> Str(CannedText(prompt)))
      @@ ("prompt" :> Str(prompt))
      @@ ("success" :> Bool(FALSE))
      @@ ("error" :> Str(error)))

(***************************************************************************)
(* The inputs the model draws from.                                        *)
(***************************************************************************)
RECURSIVE Strs(_, _)
\* the strings over alphabet of length at most n
Strs(alphabet, n) ==
  IF n = 0 THEN {""}
  ELSE Strs(alphabet, n - 1)
       \cup {s \o c : s \in Strs(alphabet, n - 1), c \in alphabet}

\* texts between braces: JSON objects, and texts json.loads refuses
ValidJsonTexts ==
  { "{}", "{ }", "{\"a\":\"b\"}", " {\"a\": {\"b\":\"c\"}} ",
    "{\"a\":\"x\",\"a\":\"y\"}", "{\"pdf_metadata\":\"m\"}",
    "{\"classification\":\"SECRET\" , \"pdf_metadata\":{}}",
    "{\"a\":\"}{\"}" }
MalformedJsonTexts ==
  { "{\"a\":\"b\",}", "{\"a\":\"b}", "{a}", "{\"a\"}", "{}{}", "{{}}",
    "{\"a\":\"x\ny\"}", "{\"a\":\"b\"} }" }
JsonCandidates == ValidJsonTexts \cup MalformedJsonTexts

\* text around the object that holds no brace, and preambles that hold one
NoBraceNoise == {"", "I think: ", "\"", " \n", " ok"}
BracePreambles == {"use {x}: ", "done} "}

\* what llm(...) can return as choices[0].text
RawCompletions ==
  Strs({"{", "}", "a", " "}, MaxShort)
  \cup {n1 \o c \o n2 : n1 \in NoBraceNoise \cup BracePreambles,
                        c \in JsonCandidates,
                        n2 \in {"", " ok", "\n"}}
  \cup {NoResponseText}

\* what llm(...) can return to /generate-text
WritingCompletions == {"", " Solar power is cheap.\n"}

\* what str(e) can be for an exception of the model runtime
ErrorTexts == {"llama_decode returned 1"}

Contents == {"", "report"}
Filenames == {"a.pdf", "A.PDF", "notes.txt", "pdf"}
Prompts == {"", "renewable energy"}
Contexts == {"", "ctx"}

NoPdf == [readable |-> FALSE, err |-> "", pages |-> <<>>, size |-> 0]
Pdfs ==
  { [readable |-> FALSE, err |-> "EOF marker not found", pages |-> <<>>, size |-> 3],
    [readable |-> TRUE, err |-> "", pages |-> <<Page(" \n")>>, size |-> 4],
    [readable |-> TRUE, err |-> "", pages |-> <<BadPage>>, size |-> 5],
    [readable |-> TRUE, err |-> "", pages |-> <<Page(NUL)>>, size |-> 6],
    [readable |-> TRUE, err |-> "", pages |-> <<Page(" a\n"), Page(""), Page("b ")>>, size |-> 7],
    [readable |-> TRUE, err |-> "", pages |-> <<Page("Failed to extract this")>>, size |-> 8] }

Servers == {"LLM_server", "classification_server"}

\* a request in flight, and the locals of its handler:
\*   llm is the instance the local llm is bound to (0: None, or deleted);
\*   instance remembers the instance get_llm_instance returned (0: None);
\*   used is the instance llm(...) was called on (0: never called);
\*   loads, reads, gens, parses count the calls of get_llm_instance,
\*   file.read() with extract_text_from_pdf, llm(...) and json.loads; pending is how the try statement is being left;
\*   status = 0 while no response has been produced
NoRequest ==
  [pc |-> "idle", server |-> "", path |-> "", content |-> "", filename |-> "",
   pdf |-> NoPdf, prompt |-> "", context |-> "",
   llm |-> 0, instance |-> 0, used |-> 0,
   loads |-> 0, reads |-> 0, gens |-> 0, parses |-> 0,
   extracted_text |-> "", full_prompt |-> "",
   has_response_text |-> FALSE, response_text |-> "",
   pending |-> "", status |-> 0, body |-> None]

\* the requests a client can send: the handler's first step and its input
Requests ==
  {[NoRequest EXCEPT !.pc = "load", !.server = sv, !.path = "/classify",
                     !.content = c] : sv \in Servers, c \in Contents}
  \cup {[NoRequest EXCEPT !.pc = "check", !.server = "LLM_server",
                          !.path = "/classify-pdf", !.filename = f, !.pdf = p]
          : f \in Filenames, p \in Pdfs}
  \cup {[NoRequest EXCEPT !.pc = "load", !.server = sv, !.path = "/generate-text",
                          !.prompt = q, !.context = c]
          : sv \in Servers, q \in Prompts, c \in Contexts}

VARIABLES req, live, created

vars == <<req, live, created>>

Init ==
  /\ req = [r \in Slots |-> NoRequest]
  /\ live = {}
  /\ created = 0

\* a request arrives and its handler starts
Arrive(r, requests) ==
  /\ req[r].pc = "idle"
  /\ \E q \in requests : req' = [req EXCEPT ![r] = q]
  /\ UNCHANGED <<live, created>>

\* the response has been sent: the slot is free again
Complete(r) ==
  /\ req[r].pc = "done"
  /\ req' = [req EXCEPT ![r] = NoRequest]
  /\ UNCHANGED <<live, created>>

(***************************************************************************)
(* Steps shared by the handlers.                                           *)
(***************************************************************************)
\* mutant of LoadModel: the test of llm is left out and the handler goes on
LoadModel_noCheck(r, next_pc) ==
  \/ /\ created < MaxInstances
     /\ created' = created + 1
     /\ live' = live \cup {created + 1}
     /\ req' = [req EXCEPT ![r].llm = created + 1,
                           ![r].instance = created + 1,
                           ![r].loads = @ + 1,
                           ![r].pc = next_pc]
  \/ /\ req' = [req EXCEPT ![r].loads = @ + 1, ![r].pc = next_pc]
     /\ UNCHANGED <<live, created>>

\* llm = get_llm_instance(); if not llm: raise HTTPException(500).
\* Llama(...) gives a fresh instance, or raises and None is returned; the
\* 500 is raised before the try statement, so no finally clause runs
LoadModel(r, next_pc) ==
  \/ /\ created < MaxInstances
     /\ created' = created + 1
     /\ live' = live \cup {created + 1}
     /\ req' = [req EXCEPT ![r].llm = created + 1,
                           ![r].instance = created + 1,
                           ![r].loads = @ + 1,
                           ![r].pc = next_pc]
  \/ /\ req' = [req EXCEPT ![r].loads = @ + 1,
                           ![r].status = 500,
                           ![r].body = ModelNotLoaded,
                           ![r].pc = "done"]
     /\ UNCHANGED <<live, created>>

\* finally: if llm: del llm.  The local is unbound and the instance freed
ReleaseModel(r) ==
  IF req[r].llm # 0 THEN live \ {req[r].llm} ELSE live

(***************************************************************************)
(* POST /classify                                                          *)
(***************************************************************************)
\* mutant of Classify_Load: the first instance created is kept in a global
\* and handed to every later request of /classify
Classify_Load_shared(r) ==
  /\ req[r].pc = "load"
  /\ req[r].path = "/classify"
  /\ IF created >= 1
     THEN /\ req' = [req EXCEPT ![r].llm = 1, ![r].instance = 1,
                                ![r].loads = @ + 1, ![r].pc = "generate"]
          /\ live' = live \cup {1}
          /\ UNCHANGED created
     ELSE LoadModel(r, "generate")

Classify_Load(r) ==
  /\ req[r].pc = "load"
  /\ req[r].path = "/classify"
  /\ LoadModel(r, "generate")

\* mutant of Classify_Generate: response_text is bound to the empty string
\* before llm(...) is called
Classify_Generate_preset(r, outcomes, completions) ==
  /\ req[r].pc = "generate"
  /\ req[r].path = "/classify"
  /\ \E outcome \in outcomes :
       LET full_prompt_with_thinking ==
             ClassifyPrompt(req[r].server, outcome, req[r].content)
       IN \/ \E raw \in completions :
               req' = [req EXCEPT ![r].full_prompt = full_prompt_with_thinking,
                                  ![r].gens = @ + 1,
                                  ![r].used = req[r].llm,
                                  ![r].has_response_text = TRUE,
                                  ![r].response_text = Strip(raw),
                                  ![r].pc = "extract"]
          \/ req' = [req EXCEPT ![r].full_prompt = full_prompt_with_thinking,
                                ![r].gens = @ + 1,
                                ![r].used = req[r].llm,
                                ![r].has_response_text = TRUE,
                                ![r].pending = "exception",
                                ![r].pc = "finally"]
  /\ UNCHANGED <<live, created>>

\* steps 1 to 3: the prompt is built (outcomes: what opening the prompt file
\* can come to), llm(...) is called and its text stripped
Classify_Generate(r, outcomes, completions) ==
  /\ req[r].pc = "generate"
  /\ req[r].path = "/classify"
  /\ \E outcome \in outcomes :
       LET full_prompt_with_thinking ==
             ClassifyPrompt(req[r].server, outcome, req[r].content)
       IN \/ \E raw \in completions :
               req' = [req EXCEPT ![r].full_prompt = full_prompt_with_thinking,
                                  ![r].gens = @ + 1,
                                  ![r].used = req[r].llm,
                                  ![r].has_response_text = TRUE,
                                  ![r].response_text = Strip(raw),
                                  ![r].pc = "extract"]
          \/ req' = [req EXCEPT ![r].full_prompt = full_prompt_with_thinking,
                                ![r].gens = @ + 1,
                                ![r].used = req[r].llm,
                                ![r].pending = "exception",
                                ![r].pc = "finally"]
  /\ UNCHANGED <<live, created>>

\* mutant of Classify_Extract: a JSONDecodeError is swallowed and whatever
\* was parsed is returned
Classify_Extract_partial(r) ==
  /\ req[r].pc = "extract"
  /\ req[r].path = "/classify"
  /\ LET x == ExtractJson(req[r].response_text)
     IN req' = [req EXCEPT
                  ![r].parses = IF x.found THEN @ + 1 ELSE @,
                  ![r].pending = IF x.found THEN "return" ELSE "fallthrough",
                  ![r].body = IF x.found THEN x.parsed.val ELSE @,
                  ![r].pc = "finally"]
  /\ UNCHANGED <<live, created>>

\* step 4: the JSON object is cut out of the completion and parsed
Classify_Extract(r) ==
  /\ req[r].pc = "extract"
  /\ req[r].path = "/classify"
  /\ LET x == ExtractJson(req[r].response_text)
     IN req' = [req EXCEPT
                  ![r].parses = IF x.found THEN @ + 1 ELSE @,
                  ![r].pending = IF x.found /\ x.parsed.ok THEN "return" ELSE "fallthrough",
                  ![r].body = IF x.found /\ x.parsed.ok THEN x.parsed.val ELSE @,
                  ![r].pc = "finally"]
  /\ UNCHANGED <<live, created>>

\* mutant of Classify_Finally: an exception of the try body is not caught
\* and leaves the handler as an internal server error
Classify_Finally_propagate(r) ==
  /\ req[r].pc = "finally"
  /\ req[r].path = "/classify"
  /\ live' = ReleaseModel(r)
  /\ req' = [req EXCEPT
               ![r].llm = 0,
               ![r].status = CASE req[r].pending = "return" -> 200
                               [] req[r].pending = "exception" -> 500
                               [] OTHER -> 503,
               ![r].body = CASE req[r].pending = "return" -> @
                             [] req[r].pending = "exception" -> None
                             [] OTHER -> FallbackDetail(ClassifyFailedReasoning,
                                                        req[r].has_response_text,
                                                        req[r].response_text),
               ![r].pc = "done"]
  /\ UNCHANGED created

\* the finally clause, then the return of the analysis or the 503 raised
\* after the try statement
Classify_Finally(r) ==
  /\ req[r].pc = "finally"
  /\ req[r].path = "/classify"
  /\ live' = ReleaseModel(r)
  /\ req' = [req EXCEPT
               ![r].llm = 0,
               ![r].status = IF req[r].pending = "return" THEN 200 ELSE 503,
               ![r].body = IF req[r].pending = "return" THEN @
                           ELSE FallbackDetail(ClassifyFailedReasoning,
                                               req[r].has_response_text,
                                               req[r].response_text),
               ![r].pc = "done"]
  /\ UNCHANGED created

(***************************************************************************)
(* POST /classify-pdf                                                      *)
(***************************************************************************)
\* mutant of Pdf_CheckName: the suffix is tested without its dot
Pdf_CheckName_noDot(r) ==
  /\ req[r].pc = "check"
  /\ req[r].path = "/classify-pdf"
  /\ IF EndsWith(Lower(req[r].filename), "pdf")
     THEN req' = [req EXCEPT ![r].pc = "load"]
     ELSE req' = [req EXCEPT ![r].status = 400, ![r].body = OnlyPdf, ![r].pc = "done"]
  /\ UNCHANGED <<live, created>>

\* if not file.filename.lower().endswith('.pdf'): raise HTTPException(400)
Pdf_CheckName(r) ==
  /\ req[r].pc = "check"
  /\ req[r].path = "/classify-pdf"
  /\ IF EndsWith(Lower(req[r].filename), ".pdf")
     THEN req' = [req EXCEPT ![r].pc = "load"]
     ELSE req' = [req EXCEPT ![r].status = 400, ![r].body = OnlyPdf, ![r].pc = "done"]
  /\ UNCHANGED <<live, created>>

\* mutant of Pdf_Load: the file is read and its text tested before the
\* model is instantiated
Pdf_Load_readFirst(r) ==
  /\ req[r].pc = "load"
  /\ req[r].path = "/classify-pdf"
  /\ LET extracted_text == extract_text_from_pdf(req[r].pdf)
     IN IF extracted_text = "" \/ StartsWith(extracted_text, "Failed to extract")
        THEN /\ req' = [req EXCEPT ![r].extracted_text = extracted_text,
                                   ![r].reads = @ + 1,
                                   ![r].status = 422,
                                   ![r].body = CouldNotExtract,
                                   ![r].pc = "done"]
             /\ UNCHANGED <<live, created>>
        ELSE LoadModel(r, "read")

Pdf_Load(r) ==
  /\ req[r].pc = "load"
  /\ req[r].path = "/classify-pdf"
  /\ LoadModel(r, "read")

\* mutant of Pdf_Read: the 422 is caught by the generic except clause
Pdf_Read_caught(r) ==
  /\ req[r].pc = "read"
  /\ req[r].path = "/classify-pdf"
  /\ LET extracted_text == extract_text_from_pdf(req[r].pdf)
     IN IF extracted_text = "" \/ StartsWith(extracted_text, "Failed to extract")
        THEN req' = [req EXCEPT ![r].extracted_text = extracted_text,
                                ![r].reads = @ + 1,
                                ![r].pending = "exception",
                                ![r].pc = "finally"]
        ELSE req' = [req EXCEPT ![r].extracted_text = extracted_text,
                                ![r].reads = @ + 1,
                                ![r].pc = "generate"]
  /\ UNCHANGED <<live, created>>

\* the file is read and its text extracted; no usable text raises the 422
Pdf_Read(r) ==
  /\ req[r].pc = "read"
  /\ req[r].path = "/classify-pdf"
  /\ LET extracted_text == extract_text_from_pdf(req[r].pdf)
     IN IF extracted_text = "" \/ StartsWith(extracted_text, "Failed to extract")
        THEN req' = [req EXCEPT ![r].extracted_text = extracted_text,
                                ![r].reads = @ + 1,
                                ![r].pending = "http",
                                ![r].body = CouldNotExtract,
                                ![r].pc = "finally"]
        ELSE req' = [req EXCEPT ![r].extracted_text = extracted_text,
                                ![r].reads = @ + 1,
                                ![r].pc = "generate"]
  /\ UNCHANGED <<live, created>>

Pdf_Generate(r, outcomes, completions) ==
  /\ req[r].pc = "generate"
  /\ req[r].path = "/classify-pdf"
  /\ \E outcome \in outcomes :
       LET full_prompt_with_thinking ==
             ClassifyPrompt(req[r].server, outcome, req[r].extracted_text)
       IN \/ \E raw \in completions :
               req' = [req EXCEPT ![r].full_prompt = full_prompt_with_thinking,
                                  ![r].gens = @ + 1,
                                  ![r].used = req[r].llm,
                                  ![r].has_response_text = TRUE,
                                  ![r].response_text = Strip(raw),
                                  ![r].pc = "extract"]
          \/ req' = [req EXCEPT ![r].full_prompt = full_prompt_with_thinking,
                                ![r].gens = @ + 1,
                                ![r].used = req[r].llm,
                                ![r].pending = "exception",
                                ![r].pc = "finally"]
  /\ UNCHANGED <<live, created>>

\* mutant of Pdf_Extract: after a first failed extraction the model is
\* asked again
Pdf_Extract_retry(r) ==
  /\ req[r].pc = "extract"
  /\ req[r].path = "/classify-pdf"
  /\ LET x == ExtractJson(req[r].response_text)
     IN req' = [req EXCEPT
                  ![r].parses = IF x.found THEN @ + 1 ELSE @,
                  ![r].pending = IF x.found /\ x.parsed.ok THEN "return" ELSE "fallthrough",
                  ![r].body = IF x.found /\ x.parsed.ok
                              THEN AddPdfMetadata(x.parsed.val, req[r].filename,
                                                  req[r].pdf.size, req[r].extracted_text)
                              ELSE @,
                  ![r].pc = IF ~(x.found /\ x.parsed.ok) /\ req[r].gens < 2
                            THEN "generate" ELSE "finally"]
  /\ UNCHANGED <<live, created>>

Pdf_Extract(r) ==
  /\ req[r].pc = "extract"
  /\ req[r].path = "/classify-pdf"
  /\ LET x == ExtractJson(req[r].response_text)
     IN req' = [req EXCEPT
                  ![r].parses = IF x.found THEN @ + 1 ELSE @,
                  ![r].pending = IF x.found /\ x.parsed.ok THEN "return" ELSE "fallthrough",
                  ![r].body = IF x.found /\ x.parsed.ok
                              THEN AddPdfMetadata(x.parsed.val, req[r].filename,
                                                  req[r].pdf.size, req[r].extracted_text)
                              ELSE @,
                  ![r].pc = "finally"]
  /\ UNCHANGED <<live, created>>

\* mutant of Pdf_Finally: the re-raised HTTPException leaves the handler
\* without the finally clause
Pdf_Finally_noCleanup(r) ==
  /\ req[r].pc = "finally"
  /\ req[r].path = "/classify-pdf"
  /\ live' = IF req[r].pending = "http" THEN live ELSE ReleaseModel(r)
  /\ req' = [req EXCEPT
               ![r].llm = IF req[r].pending = "http" THEN @ ELSE 0,
               ![r].status = CASE req[r].pending = "return" -> 200
                               [] req[r].pending = "http" -> 422
                               [] OTHER -> 503,
               ![r].body = IF req[r].pending \in {"return", "http"} THEN @
                           ELSE FallbackDetail(PdfFailedReasoning,
                                               req[r].has_response_text,
                                               req[r].response_text),
               ![r].pc = "done"]
  /\ UNCHANGED created

\* except HTTPException: raise; the finally clause; then the return, the
\* HTTPException re-raised or the 503 raised after the try statement
Pdf_Finally(r) ==
  /\ req[r].pc = "finally"
  /\ req[r].path = "/classify-pdf"
  /\ live' = ReleaseModel(r)
  /\ req' = [req EXCEPT
               ![r].llm = 0,
               ![r].status = CASE req[r].pending = "return" -> 200
                               [] req[r].pending = "http" -> 422
                               [] OTHER -> 503,
               ![r].body = IF req[r].pending \in {"return", "http"} THEN @
                           ELSE FallbackDetail(PdfFailedReasoning,
                                               req[r].has_response_text,
                                               req[r].response_text),
               ![r].pc = "done"]
  /\ UNCHANGED created

(***************************************************************************)
(* POST /generate-text                                                     *)
(***************************************************************************)
Gen_Load(r) ==
  /\ req[r].pc = "load"
  /\ req[r].path = "/generate-text"
  /\ LoadModel(r, "generate")

\* the prompt is built and llm(...) called: its stripped text is returned,
\* or the except clause returns the canned text
Gen_Generate(r, completions) ==
  /\ req[r].pc = "generate"
  /\ req[r].path = "/generate-text"
  /\ LET full_prompt == WritingPrompt(req[r].prompt, req[r].context)
     IN \/ \E raw \in completions :
             req' = [req EXCEPT ![r].full_prompt = full_prompt,
                                ![r].gens = @ + 1,
                                ![r].used = req[r].llm,
                                ![r].has_response_text = TRUE,
                                ![r].response_text = Strip(raw),
                                ![r].pending = "return",
                                ![r].body = GeneratedBody(Strip(raw), req[r].prompt),
                                ![r].pc = "finally"]
        \/ \E e \in ErrorTexts :
             req' = [req EXCEPT ![r].full_prompt = full_prompt,
                                ![r].gens = @ + 1,
                                ![r].used = req[r].llm,
                                ![r].pending = "return",
                                ![r].body = GenerationFailedBody(req[r].prompt, e),
                                ![r].pc = "finally"]
  /\ UNCHANGED <<live, created>>

Gen_Finally(r) ==
  /\ req[r].pc = "finally"
  /\ req[r].path = "/generate-text"
  /\ live' = ReleaseModel(r)
  /\ req' = [req EXCEPT ![r].llm = 0, ![r].status = 200, ![r].pc = "done"]
  /\ UNCHANGED created

(***************************************************************************)
(* The server.  Spec serves one request at a time and draws the model's    *)
(* completions from RawCompletions.                                        *)
(***************************************************************************)
Quiet == \A q \in Slots : req[q].pc = "idle"

Next ==
  \E r \in Slots :
    \/ Quiet /\ Arrive(r, Requests)
    \/ Classify_Load(r)
    \/ Classify_Generate(r, FileOutcomes, RawCompletions)
    \/ Classify_Extract(r)
    \/ Classify_Finally(r)
    \/ Pdf_CheckName(r)
    \/ Pdf_Load(r)
    \/ Pdf_Read(r)
    \/ Pdf_Generate(r, FileOutcomes, RawCompletions)
    \/ Pdf_Extract(r)
    \/ Pdf_Finally(r)
    \/ Gen_Load(r)
    \/ Gen_Generate(r, WritingCompletions)
    \/ Gen_Finally(r)
    \/ Complete(r)

Spec == Init /\ [][Next]_vars

(***************************************************************************)
(* ConcSpec serves the slots concurrently (FastAPI runs the handlers of    *)
(* different requests on different threads), on a few requests and         *)
(* completions.                                                            *)
(***************************************************************************)
ConcRequests ==
  {q \in Requests :
     /\ q.server = "LLM_server"
     /\ q.path = "/classify" => q.content = "report"
     /\ q.path = "/generate-text" => q.prompt = "renewable energy" /\ q.context = ""
     /\ q.path = "/classify-pdf" =>
          \/ q.filename = "a.pdf" /\ q.pdf.pages \in {<<>>, <<Page(" \n")>>}
          \/ q.filename = "notes.txt" /\ q.pdf.pages = <<>>}

ConcCompletions == {"{\"a\":\"b\"}", "{a}", "no json"}

ConcNext ==
  \E r \in Slots :
    \/ Arrive(r, ConcRequests)
    \/ Classify_Load(r)
    \/ Classify_Generate(r, {"loaded"}, ConcCompletions)
    \/ Classify_Extract(r)
    \/ Classify_Finally(r)
    \/ Pdf_CheckName(r)
    \/ Pdf_Load(r)
    \/ Pdf_Read(r)
    \/ Pdf_Generate(r, {"loaded"}, ConcCompletions)
    \/ Pdf_Extract(r)
    \/ Pdf_Finally(r)
    \/ Gen_Load(r)
    \/ Gen_Generate(r, {"text"})
    \/ Gen_Finally(r)
    \/ Complete(r)

ConcSpec == Init /\ [][ConcNext]_vars

(***************************************************************************)
(* Properties.  They speak of a request whose response has been produced,  *)
(* and locate the candidate by the positions of the braces.                *)
(***************************************************************************)
Done(r) == req[r].pc = "done"

Classifying(r) == req[r].path \in {"/classify", "/classify-pdf"}

\* the completion holds no '{', or no '}', or its last '}' is before its first '{'
NoBracePair(t) ==
  \/ Positions(t, "{") = {}
  \/ Positions(t, "}") = {}
  \/ Max(Positions(t, "}")) < Min(Positions(t, "{"))

\* the text from the first '{' to the last '}' inclusive
Candidate(t) == SubSeq(t, Min(Positions(t, "{")), Max(Positions(t, "}")))

\* the fallback object of a classification endpoint for request r
IsFallback(r, reasoning) ==
  /\ req[r].status = 503
  /\ req[r].body.t = "obj"
  /\ DOMAIN req[r].body.o = {"classification", "reasoning", "raw_response"}
  /\ req[r].body.o["classification"] = Str("ANALYSIS_FAILED")
  /\ req[r].body.o["reasoning"] = Str(reasoning)

ReasoningOf(r) ==
  IF req[r].path = "/classify" THEN ClassifyFailedReasoning ELSE PdfFailedReasoning

\* the JSON object texts S of the model, and every noise1 + S + noise2 as
\* the handler sees it (stripped), paired with parse(S)
JsonObjectTexts ==
  {c \in JsonCandidates \cup Strs({"{", "}", "a", " "}, MaxShort) :
     JsonLoads(c).ok /\ JsonLoads(c).val.t = "obj"}

NoisyForms ==
  {<<Strip(n1 \o c \o n2), JsonLoads(c).val>> :
     n1 \in NoBraceNoise, c \in JsonObjectTexts, n2 \in NoBraceNoise}

\* C1: on /classify, a completion noise1 + S + noise2 with S a JSON object
\* text and brace-free noise is answered with status 200 and parse(S)
C1_NoisyObjectParsed ==
  \A r \in Slots :
    (Done(r) /\ req[r].path = "/classify" /\ req[r].has_response_text) =>
      \A f \in NoisyForms :
        req[r].response_text = f[1] => req[r].status = 200 /\ req[r].body = f[2]

C1_Witness ==
  \E r \in Slots :
    /\ Done(r) /\ req[r].path = "/classify" /\ req[r].status = 200
    /\ req[r].response_text = "I think:  {\"a\": {\"b\":\"c\"}}  ok"
    /\ req[r].body = Obj("a" :> Obj("b" :> Str("c")))

\* C2: on /classify, a completion with no '{', no '}' or its last '}' before
\* its first '{' is never parsed and is answered with the fallback and 503
C2_NoJsonFound ==
  \A r \in Slots :
    (Done(r) /\ req[r].path = "/classify" /\ req[r].has_response_text
       /\ NoBracePair(req[r].response_text)) =>
      /\ req[r].parses = 0
      /\ IsFallback(r, ClassifyFailedReasoning)

C2_Witness ==
  \E r \in Slots :
    /\ Done(r) /\ req[r].path = "/classify" /\ req[r].status = 503
    /\ req[r].parses = 0
    /\ Positions(req[r].response_text, "{") # {}
    /\ Positions(req[r].response_text, "}") # {}
    /\ NoBracePair(req[r].response_text)

\* C3: when the text from the first '{' to the last '}' is not well-formed
\* JSON the response is the fallback with 503, never a 200, after exactly
\* one generation and one parse
C3_MalformedJson ==
  \A r \in Slots :
    (Done(r) /\ Classifying(r) /\ req[r].has_response_text
       /\ ~NoBracePair(req[r].response_text)
       /\ ~JsonLoads(Candidate(req[r].response_text)).ok) =>
      /\ IsFallback(r, ReasoningOf(r))
      /\ req[r].gens = 1
      /\ req[r].parses = 1

C3_Witness ==
  \E r \in Slots :
    /\ Done(r) /\ req[r].path = "/classify" /\ req[r].status = 503
    /\ req[r].parses = 1
    /\ Candidate(req[r].response_text) = "{\"a\":\"b\",}"

\* the five classification labels of the rubric
Labels == {"TOP SECRET", "SECRET", "CONFIDENTIAL", "RESTRICTED", "UNCLASSIFIED"}

\* C4: when no JSON is found or it is malformed, both classification
\* endpoints answer 503 with exactly classification (ANALYSIS_FAILED, no
\* real label), reasoning (fixed per endpoint) and raw_response (the
\* stripped completion)
C4_FixedFallback ==
  \A r \in Slots :
    (Done(r) /\ Classifying(r) /\ req[r].has_response_text
       /\ (\/ NoBracePair(req[r].response_text)
           \/ ~JsonLoads(Candidate(req[r].response_text)).ok)) =>
      /\ IsFallback(r, ReasoningOf(r))
      /\ req[r].body.o["classification"].s \notin Labels
      /\ req[r].body.o["raw_response"] = Str(req[r].response_text)

C4_Witness ==
  \E r \in Slots :
    /\ Done(r) /\ req[r].path = "/classify-pdf" /\ req[r].status = 503
    /\ NoBracePair(req[r].response_text)
    /\ req[r].response_text # ""
    /\ req[r].body.o["raw_response"] = Str(req[r].response_text)

\* the body carries a success flag
HasSuccessFlag(r) ==
  /\ req[r].body.t = "obj"
  /\ "success" \in DOMAIN req[r].body.o
  /\ req[r].body.o["success"].t = "bool"

\* C5 as stated: every /generate-text response is a 200 with a success
\* flag, also when the model instance cannot be loaded
C5_Always200 ==
  \A r \in Slots :
    (Done(r) /\ req[r].path = "/generate-text") =>
      req[r].status = 200 /\ HasSuccessFlag(r)

\* C5 amended: once the model instance is loaded every /generate-text
\* response is a 200 with a success flag, whatever generation does; when
\* the instance cannot be loaded the response is a 500 without one
C5_200OnceLoaded ==
  \A r \in Slots :
    (Done(r) /\ req[r].path = "/generate-text") =>
      IF req[r].instance # 0
      THEN req[r].status = 200 /\ HasSuccessFlag(r)
      ELSE req[r].status = 500 /\ ~HasSuccessFlag(r)

C5_Witness ==
  \E r \in Slots :
    /\ Done(r) /\ req[r].path = "/generate-text"
    /\ req[r].instance # 0 /\ req[r].gens = 1 /\ ~req[r].has_response_text
    /\ req[r].status = 200
    /\ req[r].body.o["success"] = Bool(FALSE)

\* C6 as stated: when extract_text_from_pdf returns its 'No text content
\* could be extracted' message, llm(...) is never called and the response
\* is a 422
C6_UnextractablePdfRejected ==
  \A r \in Slots :
    (req[r].path = "/classify-pdf" /\ req[r].extracted_text = NoTextMessage) =>
      /\ req[r].gens = 0
      /\ Done(r) => req[r].status = 422

\* what the model put in the completion of request r
ModelOutput(r) == JsonLoads(Candidate(req[r].response_text)).val

\* C7 as stated: in a 200 of /classify-pdf every key of the model's object,
\* pdf_metadata included, keeps the value the model gave it
C7_MetadataNeverOverwrites ==
  \A r \in Slots :
    (Done(r) /\ req[r].path = "/classify-pdf" /\ req[r].status = 200) =>
      \A k \in DOMAIN ModelOutput(r).o : req[r].body.o[k] = ModelOutput(r).o[k]

\* C7 amended: every key of the model's object other than pdf_metadata
\* keeps its value, and pdf_metadata is the injected metadata, which
\* replaces a pdf_metadata of the model
C7_MetadataReplacesOnlyItsKey ==
  \A r \in Slots :
    (Done(r) /\ req[r].path = "/classify-pdf" /\ req[r].status = 200) =>
      /\ DOMAIN req[r].body.o = DOMAIN ModelOutput(r).o \cup {"pdf_metadata"}
      /\ \A k \in DOMAIN ModelOutput(r).o \ {"pdf_metadata"} :
           req[r].body.o[k] = ModelOutput(r).o[k]
      /\ req[r].body.o["pdf_metadata"].t = "obj"
      /\ DOMAIN req[r].body.o["pdf_metadata"].o =
           {"filename", "file_size_bytes", "extracted_text_length", "extraction_successful"}
      /\ req[r].body.o["pdf_metadata"].o["filename"] = Str(req[r].filename)
      /\ req[r].body.o["pdf_metadata"].o["file_size_bytes"] = Num(req[r].pdf.size)
      /\ req[r].body.o["pdf_metadata"].o["extracted_text_length"] =
           Num(Len(req[r].extracted_text))
      /\ req[r].body.o["pdf_metadata"].o["extraction_successful"] = Bool(TRUE)

C7_Witness ==
  \E r \in Slots :
    /\ Done(r) /\ req[r].path = "/classify-pdf" /\ req[r].status = 200
    /\ DOMAIN ModelOutput(r).o = {"classification", "pdf_metadata"}
    /\ req[r].body.o["classification"] = Str("SECRET")
    /\ req[r].body.o["pdf_metadata"] # ModelOutput(r).o["pdf_metadata"]

\* C8: when get_llm_instance returns None, /classify and /classify-pdf are
\* answered at once with a 500 that is not the fallback object: llm(...)
\* was not called, no prompt was built and nothing was parsed
C8_ModelUnavailable ==
  \A r \in Slots :
    (Classifying(r) /\ req[r].loads = 1 /\ req[r].instance = 0) =>
      /\ Done(r)
      /\ req[r].status = 500
      /\ req[r].body.t = "str"
      /\ req[r].gens = 0
      /\ req[r].parses = 0
      /\ req[r].full_prompt = ""

C8_Witness ==
  \E r \in Slots :
    /\ Done(r) /\ req[r].path = "/classify-pdf"
    /\ req[r].loads = 1 /\ req[r].instance = 0 /\ req[r].status = 500

\* the filename does not end in '.pdf', whatever the case of its letters
NonPdfName(f) == Len(f) < 4 \/ Lower(SubSeq(f, Len(f) - 3, Len(f))) # ".pdf"

\* C9: a /classify-pdf request whose filename does not end in '.pdf' is
\* answered with a 400, and neither get_llm_instance nor llm(...) is called
C9_NonPdfRejected ==
  \A r \in Slots :
    (req[r].path = "/classify-pdf" /\ NonPdfName(req[r].filename)
       /\ req[r].pc # "check") =>
      /\ Done(r)
      /\ req[r].status = 400
      /\ req[r].loads = 0
      /\ req[r].instance = 0
      /\ req[r].gens = 0

C9_Witness ==
  \E r \in Slots :
    /\ Done(r) /\ req[r].path = "/classify-pdf"
    /\ req[r].filename = "notes.txt" /\ req[r].status = 400 /\ req[r].loads = 0

\* C10: a request whose response has been produced holds no instance, every
\* held instance belongs to a request still being handled, and when no
\* request is being handled no instance is held
C10_InstancesReleased ==
  /\ \A r \in Slots :
       req[r].status # 0 => req[r].llm = 0 /\ req[r].instance \notin live
  /\ \A i \in live :
       \E r \in Slots : req[r].llm = i /\ req[r].pc \notin {"idle", "done"}
  /\ (\A r \in Slots : req[r].pc \in {"idle", "done"}) => live = {}

C10_Witness ==
  /\ live = {}
  /\ created = MaxInstances
  /\ \E r \in Slots :
       Done(r) /\ req[r].path = "/classify-pdf" /\ req[r].status = 422
         /\ req[r].instance # 0
  /\ \E r \in Slots :
       Done(r) /\ req[r].path = "/generate-text" /\ req[r].status = 200
         /\ req[r].instance # 0

\* C11: once get_llm_instance has returned an instance, /classify answers
\* with the parsed object and 200 or with the fallback object and 503,
\* whatever the completion and also when the try body raises; a request of
\* /classify or /classify-pdf that has called llm(...) is answered with 200
\* or 503 only; a response exists exactly when the handler has ended
C11_ParsedOrFallback ==
  \A r \in Slots :
    /\ (req[r].status # 0) <=> Done(r)
    /\ (Done(r) /\ req[r].path = "/classify" /\ req[r].instance # 0) =>
         \/ /\ req[r].status = 200
            /\ req[r].body.t = "obj"
            /\ req[r].has_response_text
            /\ ~NoBracePair(req[r].response_text)
            /\ req[r].body = ModelOutput(r)
         \/ IsFallback(r, ClassifyFailedReasoning)
    /\ (Classifying(r) /\ req[r].gens >= 1) => req[r].status \in {0, 200, 503}

C11_Witness ==
  \E r \in Slots :
    /\ Done(r) /\ req[r].path = "/classify" /\ req[r].instance # 0
    /\ req[r].gens = 1 /\ req[r].pending = "exception"
    /\ IsFallback(r, ClassifyFailedReasoning)

\* a preamble with a brace + a JSON object text S + brace-free text, as the
\* handler sees it (stripped), with parse(S)
PreambleForms(preambles) ==
  {<<Strip(p \o c \o n2), JsonLoads(c).val>> :
     p \in preambles, c \in JsonObjectTexts, n2 \in {"", " ok", "\n"}}

OpenBracePreambles == {p \in BracePreambles : Positions(p, "{") # {}}
CloseBracePreambles == {p \in BracePreambles : Positions(p, "{") = {}}
BracePreambleForms == PreambleForms(BracePreambles)
OpenBraceForms == PreambleForms(OpenBracePreambles)
CloseBraceForms == PreambleForms(CloseBracePreambles)

\* C12 as stated: on /classify, a completion made of a preamble holding
\* '{' and/or '}', then a JSON object text S, then brace-free text, is
\* answered with status 200 and parse(S)
C12_BracePreambleTolerated ==
  \A r \in Slots :
    (Done(r) /\ req[r].path = "/classify" /\ req[r].has_response_text) =>
      \A f \in BracePreambleForms :
        req[r].response_text = f[1] => req[r].status = 200 /\ req[r].body = f[2]

\* C12: on /classify, a preamble that holds '}' and no '{' is tolerated
\* (status 200 and parse(S)); with the preamble 'use {x}: ' the text parsed
\* starts at the preamble's '{' and the answer is the fallback with 503 and
\* the completion as raw_response
C12_CloseBracePreambleTolerated ==
  \A r \in Slots :
    (Done(r) /\ req[r].path = "/classify" /\ req[r].has_response_text) =>
      /\ \A f \in CloseBraceForms :
           req[r].response_text = f[1] => req[r].status = 200 /\ req[r].body = f[2]
      /\ \A f \in OpenBraceForms :
           req[r].response_text = f[1] =>
             /\ IsFallback(r, ClassifyFailedReasoning)
             /\ req[r].body.o["raw_response"] = Str(f[1])
             /\ SubSeq(Candidate(f[1]), 1, 3) = "{x}"

C12_Witness ==
  \E r \in Slots :
    /\ Done(r) /\ req[r].path = "/classify" /\ req[r].status = 200
    /\ req[r].response_text = "done}  {\"a\": {\"b\":\"c\"}}  ok"
    /\ req[r].body = Obj("a" :> Obj("b" :> Str("c")))

\* C13: on /generate-text with the instance loaded, when llm(...) raises
\* the response is a 200 whose body has success false, the request's
\* prompt, an error string and the canned text as generatedText; when
\* llm(...) returns the body has success true, the request's prompt, the
\* stripped completion and no error field
C13_GenerationOutcomeBodies ==
  \A r \in Slots :
    (Done(r) /\ req[r].path = "/generate-text" /\ req[r].instance # 0) =>
      /\ req[r].status = 200
      /\ req[r].gens = 1
      /\ req[r].body.t = "obj"
      /\ req[r].body.o["prompt"] = Str(req[r].prompt)
      /\ IF req[r].has_response_text
         THEN /\ DOMAIN req[r].body.o = {"generatedText", "prompt", "success"}
              /\ req[r].body.o["success"] = Bool(TRUE)
              /\ req[r].body.o["generatedText"] = Str(req[r].response_text)
         ELSE /\ DOMAIN req[r].body.o = {"generatedText", "prompt", "success", "error"}
              /\ req[r].body.o["success"] = Bool(FALSE)
              /\ req[r].body.o["error"].t = "str"
              /\ req[r].body.o["generatedText"] =
                   Str("I'd be happy to help you write about " \o req[r].prompt
                       \o ". Here's a starting point that you can expand upon and customize to fit your specific needs.")

C13_Witness ==
  \E r \in Slots :
    /\ Done(r) /\ req[r].path = "/generate-text" /\ req[r].status = 200
    /\ req[r].instance # 0 /\ req[r].gens = 1 /\ ~req[r].has_response_text
    /\ req[r].prompt = "renewable energy"
    /\ req[r].body.o["prompt"] = Str("renewable energy")
    /\ req[r].body.o["success"] = Bool(FALSE)
    /\ req[r].body.o["error"] = Str("llama_decode returned 1")

\* C14: on /classify and /classify-pdf, when llm(...) raises the response
\* is the endpoint's fallback with 503 and raw_response 'No response
\* generated.'; in a fallback raw_response is the stripped completion
\* exactly when llm(...) returned one
C14_GenerationErrorFallback ==
  \A r \in Slots :
    (Done(r) /\ Classifying(r) /\ req[r].gens = 1) =>
      /\ req[r].pending = "exception" =>
           /\ IsFallback(r, ReasoningOf(r))
           /\ req[r].body.o["raw_response"] = Str("No response generated.")
      /\ req[r].status = 503 =>
           /\ IsFallback(r, ReasoningOf(r))
           /\ req[r].has_response_text <=> req[r].pending # "exception"
           /\ req[r].has_response_text =>
                req[r].body.o["raw_response"] = Str(req[r].response_text)
           /\ ~req[r].has_response_text =>
                req[r].body.o["raw_response"] = Str("No response generated.")

C14_Witness ==
  \E r \in Slots :
    /\ Done(r) /\ req[r].path = "/classify-pdf" /\ req[r].gens = 1
    /\ req[r].pending = "exception" /\ req[r].status = 503
    /\ req[r].body.o["classification"] = Str("ANALYSIS_FAILED")
    /\ req[r].body.o["raw_response"] = Str("No response generated.")

\* C15: on /classify-pdf with the instance loaded, when extract_text_from_pdf
\* returns the empty string or a string that starts with 'Failed to extract',
\* llm(...) is never called and the response is the 422 with its detail
\* string, not the 503 fallback
C15_UnusableTextRejected ==
  \A r \in Slots :
    (req[r].path = "/classify-pdf" /\ req[r].instance # 0 /\ req[r].reads = 1
       /\ (req[r].extracted_text = ""
           \/ /\ Len(req[r].extracted_text) >= 17
              /\ SubSeq(req[r].extracted_text, 1, 17) = "Failed to extract")) =>
      /\ req[r].gens = 0 /\ req[r].parses = 0
      /\ req[r].pc \in {"finally", "done"}
      /\ Done(r) =>
           /\ req[r].status = 422
           /\ req[r].body =
                Str("Could not extract text from PDF file. The file may be corrupted, password protected, or contain only images.")

C15_Witness ==
  \E r \in Slots :
    /\ Done(r) /\ req[r].path = "/classify-pdf" /\ req[r].instance # 0
    /\ req[r].reads = 1 /\ req[r].gens = 0 /\ req[r].status = 422
    /\ req[r].extracted_text = "Failed to extract text from PDF: EOF marker not found"

\* the instance llm(...) is called on is the one the request's own
\* get_llm_instance call returned, still held when the call is made, and no
\* two requests have the same instance
OwnInstance ==
  /\ \A r \in Slots :
       /\ req[r].used # 0 => req[r].used = req[r].instance
       /\ req[r].instance # 0 => req[r].instance <= created
       /\ req[r].pc = "generate" =>
            req[r].llm = req[r].instance /\ req[r].llm \in live
  /\ \A r1, r2 \in Slots :
       (r1 # r2 /\ req[r1].instance # 0) => req[r1].instance # req[r2].instance

\* the instance a request gets was never created before, hence never held
\* by a request that has finished
FreshInstance ==
  \A r \in Slots :
    (req'[r].instance # req[r].instance /\ req'[r].instance # 0) =>
      /\ req[r].instance = 0
      /\ req'[r].instance > created
      /\ req'[r].instance \notin live
      /\ created' = req'[r].instance

\* C16: under every interleaving of the handlers, a request that generates
\* uses only the instance its own get_llm_instance call created, no
\* instance is used by two requests, and none is used after the request
\* that created it has finished
C16_NoSharedInstance == []OwnInstance /\ [][FreshInstance]_vars

C16_Witness ==
  \E r1, r2 \in Slots :
    /\ r1 # r2
    /\ req[r1].path = "/classify" /\ req[r2].path = "/classify-pdf"
    /\ req[r1].pc = "extract" /\ req[r2].pc = "extract"
    /\ req[r1].used = 2 /\ req[r2].used = 1
    /\ live = {1, 2}

\* C17: on every endpoint a request calls get_llm_instance, llm(...) and
\* json.loads at most once each, whatever the outcome; /generate-text
\* never parses; a failed extraction is answered after that single
\* generation
C17_SingleShot ==
  \A r \in Slots :
    /\ req[r].loads <= 1 /\ req[r].gens <= 1 /\ req[r].parses <= 1
    /\ req[r].parses <= req[r].gens
    /\ req[r].path = "/generate-text" => req[r].parses = 0
    /\ (Done(r) /\ req[r].status = 503) => req[r].gens = 1

C17_Witness ==
  \E r \in Slots :
    /\ Done(r) /\ req[r].path = "/classify-pdf" /\ req[r].status = 503
    /\ req[r].has_response_text /\ req[r].response_text = "{a}"
    /\ req[r].gens = 1 /\ req[r].parses = 1

\* the envelope of /generate-text around its user turn: one system turn
\* before it, one opened and empty assistant turn after it
EnvelopeHead ==
  "<|im_start|>system\n" \o WritingSystemMessage \o "<|im_end|>\n<|im_start|>user\n"

EnvelopeTail == "<|im_end|>\n<|im_start|>assistant\n"

HasEnvelope(t) ==
  /\ Len(t) >= Len(EnvelopeHead) + Len(EnvelopeTail)
  /\ SubSeq(t, 1, Len(EnvelopeHead)) = EnvelopeHead
  /\ SubSeq(t, Len(t) - Len(EnvelopeTail) + 1, Len(t)) = EnvelopeTail

\* the user turn of a prompt that has the envelope
UserTurn(t) == SubSeq(t, Len(EnvelopeHead) + 1, Len(t) - Len(EnvelopeTail))

ContextLine(r) ==
  IF req[r].context # "" THEN "\n\nContext: " \o req[r].context ELSE ""

\* C18 as stated: the prompt /generate-text sends to the model has the
\* envelope, and its user turn is 'Write about: {prompt}', then the context
\* line iff the context is not empty, then nothing
C18_UserTurnExact ==
  \A r \in Slots :
    (req[r].path = "/generate-text" /\ req[r].gens = 1) =>
      /\ HasEnvelope(req[r].full_prompt)
      /\ UserTurn(req[r].full_prompt) =
           "Write about: " \o req[r].prompt \o ContextLine(r)

\* C18: the prompt /generate-text sends to the model has the envelope (one
\* system turn, one user turn, an empty assistant turn), and its user turn
\* is 'Write about: {prompt}', then the context line iff the context is not
\* empty, then always the line asking for a well-written response
C18_UserTurnWithRequestLine ==
  \A r \in Slots :
    (req[r].path = "/generate-text" /\ req[r].gens = 1) =>
      /\ HasEnvelope(req[r].full_prompt)
      /\ UserTurn(req[r].full_prompt) =
           "Write about: " \o req[r].prompt \o ContextLine(r)
           \o "\n\nPlease provide a well-written response that addresses the request:"

C18_Witness ==
  \E r \in Slots :
    /\ req[r].path = "/generate-text" /\ req[r].gens = 1
    /\ req[r].prompt = "renewable energy" /\ req[r].context = ""
    /\ UserTurn(req[r].full_prompt) =
         "Write about: renewable energy\n\nPlease provide a well-written response that addresses the request:"

\* C19: /classify-pdf tests the filename, then instantiates the model,
\* then reads the file and extracts its text: a non-PDF filename is
\* answered 400 with no instantiation and no read; a model that cannot be
\* loaded is answered 500 with no read, whatever the file; the file is read
\* and the 422 given only by a request that holds an instance
C19_PreflightOrder ==
  \A r \in Slots :
    req[r].path = "/classify-pdf" =>
      /\ NonPdfName(req[r].filename) =>
           /\ req[r].loads = 0 /\ req[r].reads = 0 /\ req[r].gens = 0
           /\ Done(r) => req[r].status = 400
      /\ (req[r].loads = 1 /\ req[r].instance = 0) =>
           /\ Done(r) /\ req[r].status = 500
           /\ req[r].reads = 0 /\ req[r].gens = 0
      /\ req[r].reads <= req[r].loads
      /\ req[r].reads = 1 => req[r].instance # 0
      /\ req[r].status = 422 => req[r].instance # 0 /\ req[r].reads = 1

C19_Witness ==
  \E r \in Slots :
    /\ Done(r) /\ req[r].path = "/classify-pdf"
    /\ req[r].filename = "a.pdf" /\ ~req[r].pdf.readable
    /\ req[r].loads = 1 /\ req[r].instance = 0
    /\ req[r].status = 500 /\ req[r].reads = 0

====
